---------------------------- MODULE Spec2Model ----------------------------
(***************************************************************************)
(* Week1/courseweek1.py: read a name, clear the terminal, hash the UTF-8   *)
(* encoding of the name with SHA3-256, print the name and the digest.      *)
(*                                                                         *)
(* Text is a sequence of Unicode code points, bytes are a sequence of      *)
(* integers 0..255.  stdout and stderr are the texts the Python process    *)
(* wrote to sys.stdout and to stderr, one element per write; what the      *)
(* clear command does to the terminal is recorded in terminal.             *)
(***************************************************************************)
EXTENDS Integers, Sequences, FiniteSets, TLC

(***************************************************************************)
(* Bounds of the model.                                                    *)
(***************************************************************************)
\* Longest standard-input content enumerated over Alphabet.
MaxLen == 2

(***************************************************************************)
(* Text literals of the program.                                           *)
(***************************************************************************)
\* "\n"
NL == 10
\* " ", the separator print() puts between its arguments
SP == 32
\* "\r"
CR == 13
\* "Masukkan nama anda: "
Prompt == <<77, 97, 115, 117, 107, 107, 97, 110, 32, 110, 97, 109, 97, 32, 97, 110, 100, 97, 58, 32>>
\* "Nama sebelum di hash: "
LabelSebelum == <<78, 97, 109, 97, 32, 115, 101, 98, 101, 108, 117, 109, 32, 100, 105, 32, 104, 97, 115, 104, 58, 32>>
\* "Nama setelah di hash: "
LabelSetelah == <<78, 97, 109, 97, 32, 115, 101, 116, 101, 108, 97, 104, 32, 100, 105, 32, 104, 97, 115, 104, 58, 32>>
\* "0123456789abcdef"
HexDigits == <<48, 49, 50, 51, 52, 53, 54, 55, 56, 57, 97, 98, 99, 100, 101, 102>>

(***************************************************************************)
(* str.encode(): UTF-8, errors='strict'.  A lone surrogate (U+D800..U+DFFF)*)
(* cannot be encoded and raises UnicodeEncodeError.                        *)
(***************************************************************************)
IsSurrogate(c) == c >= 55296 /\ c <= 57343

Utf8Char(c) ==
  IF c < 128 THEN <<c>>
  ELSE IF c < 2048 THEN <<192 + (c \div 64), 128 + (c % 64)>>
  ELSE IF c < 65536 THEN <<224 + (c \div 4096), 128 + ((c \div 64) % 64), 128 + (c % 64)>>
  ELSE <<240 + (c \div 262144), 128 + ((c \div 4096) % 64), 128 + ((c \div 64) % 64), 128 + (c % 64)>>

\* The encodings of the code points of s, concatenated.
RECURSIVE Utf8(_)
Utf8(s) ==
  IF s = <<>> THEN <<>>
  ELSE IF Len(s) = 1 THEN Utf8Char(s[1])
  ELSE Utf8(SubSeq(s, 1, Len(s) \div 2)) \o Utf8(SubSeq(s, (Len(s) \div 2) + 1, Len(s)))

CanEncode(s) == \A i \in 1..Len(s) : ~IsSurrogate(s[i])

(***************************************************************************)
(* Decoding of standard input: UTF-8 with the error handler of sys.stdin,  *)
(* "strict" (an undecodable byte raises UnicodeDecodeError) or             *)
(* "surrogateescape" (an undecodable byte b becomes U+DC00 + b; the        *)
(* handler of the C and POSIX locales).                                    *)
(***************************************************************************)
ErrorHandlers == {"strict", "surrogateescape"}

\* Bytes a sequence with lead byte c has, 0 when c cannot lead a sequence.
SeqNeed(c) ==
  IF c < 128 THEN 1
  ELSE IF c >= 194 /\ c <= 223 THEN 2
  ELSE IF c >= 224 /\ c <= 239 THEN 3
  ELSE IF c >= 240 /\ c <= 244 THEN 4
  ELSE 0

\* Whether byte d may be the k-th byte (k >= 2) of a sequence led by c:
\* overlong forms, surrogates and code points above U+10FFFF are excluded
\* by the range of the second byte.
IsContinuation(c, k, d) ==
  LET lo == IF k = 2 /\ c = 224 THEN 160 ELSE IF k = 2 /\ c = 240 THEN 144 ELSE 128
      hi == IF k = 2 /\ c = 237 THEN 159 ELSE IF k = 2 /\ c = 244 THEN 143 ELSE 191
  IN d >= lo /\ d <= hi

\* Length of the well-formed sequence that starts at b[i], 0 if there is none.
SeqLen(b, i) ==
  LET n == SeqNeed(b[i])
  IN IF n > 0 /\ i + n - 1 <= Len(b)
          /\ \A k \in 2..n : IsContinuation(b[i], k, b[i + k - 1])
       THEN n ELSE 0

\* b[i] is a continuation byte of a well-formed sequence that starts before it.
Covered(b, i) == \E j \in 1..(i - 1) : i - j <= 3 /\ SeqLen(b, j) > i - j

\* The code point of the well-formed sequence of n bytes at b[i].
CodePoint(b, i, n) ==
  IF n = 1 THEN b[i]
  ELSE IF n = 2 THEN (b[i] - 192) * 64 + (b[i + 1] - 128)
  ELSE IF n = 3 THEN (b[i] - 224) * 4096 + (b[i + 1] - 128) * 64 + (b[i + 2] - 128)
  ELSE (b[i] - 240) * 262144 + (b[i + 1] - 128) * 4096 + (b[i + 2] - 128) * 64
         + (b[i + 3] - 128)

\* The positions of b at which decoding fails.
Undecodable(b) == {i \in 1..Len(b) : SeqLen(b, i) = 0 /\ ~Covered(b, i)}

\* What positions lo..hi of b contribute to the decoded text.
RECURSIVE DecodeRange(_, _, _)
DecodeRange(b, lo, hi) ==
  IF lo > hi THEN <<>>
  ELSE IF lo = hi
    THEN IF SeqLen(b, lo) > 0 THEN <<CodePoint(b, lo, SeqLen(b, lo))>>
         ELSE IF Covered(b, lo) THEN <<>>
         ELSE <<56320 + b[lo]>>
  ELSE DecodeRange(b, lo, (lo + hi) \div 2) \o DecodeRange(b, ((lo + hi) \div 2) + 1, hi)

\* bytes.decode("utf-8", errors) of all of b.
Decode(b, errors) ==
  IF errors = "strict" /\ Undecodable(b) # {}
    THEN [raised |-> "UnicodeDecodeError", text |-> <<>>]
    ELSE [raised |-> "", text |-> DecodeRange(b, 1, Len(b))]

\* The bytes at the end of b that an incremental decoder holds back: the
\* start of a sequence that more bytes may still complete.  After the lead
\* byte 0xED the decoder also holds back a second byte 0xA0..0xBF (the
\* start of an encoded surrogate), which it rejects only once the third
\* byte is there.
PendingTail(b) ==
  LET starts == {i \in 1..Len(b) :
                   /\ SeqNeed(b[i]) > Len(b) - i + 1
                   /\ \A k \in 2..(Len(b) - i + 1) :
                        \/ IsContinuation(b[i], k, b[i + k - 1])
                        \/ b[i] = 237 /\ k = 2 /\ b[i + 1] >= 160 /\ b[i + 1] <= 191}
  IN IF starts = {} THEN 0 ELSE Len(b) - (CHOOSE i \in starts : TRUE) + 1

(***************************************************************************)
(* hashlib.sha3_256: the Keccak[512] sponge of FIPS 202 over bytes.  The   *)
(* 1600-bit state is 200 bytes, lane (x, y) at bytes 8*(5*y+x)+1 .. +8,    *)
(* least significant byte first.                                           *)
(***************************************************************************)
\* A function on 1..n as an explicit tuple.
Tuple(f) == f \o <<>>

RECURSIVE BitXor(_, _, _)
BitXor(a, b, n) == IF n = 0 THEN 0 ELSE ((a + b) % 2) + 2 * BitXor(a \div 2, b \div 2, n - 1)

RECURSIVE BitAnd(_, _, _)
BitAnd(a, b, n) == IF n = 0 THEN 0 ELSE ((a % 2) * (b % 2)) + 2 * BitAnd(a \div 2, b \div 2, n - 1)

\* XOR and AND of two 4-bit values a, b at index 16*a + b + 1 ...
Xor4 == Tuple([i \in 1..256 |-> BitXor((i - 1) \div 16, (i - 1) % 16, 4)])

And4 == Tuple([i \in 1..256 |-> BitAnd((i - 1) \div 16, (i - 1) % 16, 4)])

\* ... and of two bytes a, b at index 256*a + b + 1.
Xor8 ==
  Tuple([i \in 1..65536 |->
    LET a == (i - 1) \div 256
        b == (i - 1) % 256
    IN 16 * Xor4[16 * (a \div 16) + (b \div 16) + 1] + Xor4[16 * (a % 16) + (b % 16) + 1]])

And8 ==
  Tuple([i \in 1..65536 |->
    LET a == (i - 1) \div 256
        b == (i - 1) % 256
    IN 16 * And4[16 * (a \div 16) + (b \div 16) + 1] + And4[16 * (a % 16) + (b % 16) + 1]])

Xor(a, b) == Xor8[256 * a + b + 1]

And(a, b) == And8[256 * a + b + 1]

\* Bytes of the Keccak-f[1600] state, rounds of the permutation, bytes of
\* the SHA3-256 rate (1600 - 2*256 bits) and of the digest.
StateBytes == 200
NumRounds == 24
Rate == 136
DigestBytes == 32

\* Rotation offsets of the rho step, RotationOffsets[x + 1][y + 1].
RotationOffsets ==
  << <<0, 36, 3, 41, 18>>, <<1, 44, 10, 45, 2>>, <<62, 6, 43, 15, 61>>,
     <<28, 55, 25, 21, 56>>, <<27, 20, 39, 8, 14>> >>

\* Round constants of the iota step, least significant byte first.
RoundConstants ==
  << <<1, 0, 0, 0, 0, 0, 0, 0>>,
     <<130, 128, 0, 0, 0, 0, 0, 0>>,
     <<138, 128, 0, 0, 0, 0, 0, 128>>,
     <<0, 128, 0, 128, 0, 0, 0, 128>>,
     <<139, 128, 0, 0, 0, 0, 0, 0>>,
     <<1, 0, 0, 128, 0, 0, 0, 0>>,
     <<129, 128, 0, 128, 0, 0, 0, 128>>,
     <<9, 128, 0, 0, 0, 0, 0, 128>>,
     <<138, 0, 0, 0, 0, 0, 0, 0>>,
     <<136, 0, 0, 0, 0, 0, 0, 0>>,
     <<9, 128, 0, 128, 0, 0, 0, 0>>,
     <<10, 0, 0, 128, 0, 0, 0, 0>>,
     <<139, 128, 0, 128, 0, 0, 0, 0>>,
     <<139, 0, 0, 0, 0, 0, 0, 128>>,
     <<137, 128, 0, 0, 0, 0, 0, 128>>,
     <<3, 128, 0, 0, 0, 0, 0, 128>>,
     <<2, 128, 0, 0, 0, 0, 0, 128>>,
     <<128, 0, 0, 0, 0, 0, 0, 128>>,
     <<10, 128, 0, 0, 0, 0, 0, 0>>,
     <<10, 0, 0, 128, 0, 0, 0, 128>>,
     <<129, 128, 0, 128, 0, 0, 0, 128>>,
     <<128, 128, 0, 0, 0, 0, 0, 128>>,
     <<1, 0, 0, 128, 0, 0, 0, 0>>,
     <<8, 128, 0, 128, 0, 0, 0, 128>> >>

\* Index of byte j (0..7) of lane (x, y).
Idx(x, y, j) == 8 * (5 * y + x) + j + 1

\* Byte j of the lane that starts at L[o], rotated left by r bits.
RotByte(L, o, j, r) ==
  LET s == r \div 8
      t == r % 8
  IN ((L[o + ((j + 8 - s) % 8)] * (2 ^ t)) % 256) + (L[o + ((j + 15 - s) % 8)] \div (2 ^ (8 - t)))

Theta(A) ==
  LET C == Tuple([i \in 1..40 |->
             Xor(Xor(Xor(Xor(A[i], A[i + 40]), A[i + 80]), A[i + 120]), A[i + 160])])
      D == Tuple([i \in 1..40 |->
             LET x == (i - 1) \div 8
                 j == (i - 1) % 8
             IN Xor(C[8 * ((x + 4) % 5) + j + 1], RotByte(C, 8 * ((x + 1) % 5) + 1, j, 1))])
  IN Tuple([i \in 1..StateBytes |-> Xor(A[i], D[((i - 1) % 40) + 1])])

\* rho and pi: lane (x, y), rotated, moves to lane (y, 2x + 3y).
RhoPi(A) ==
  Tuple([i \in 1..StateBytes |->
    LET X == ((i - 1) \div 8) % 5
        Y == (i - 1) \div 40
        x == (X + 3 * Y) % 5
    IN RotByte(A, Idx(x, X, 0), (i - 1) % 8, RotationOffsets[x + 1][X + 1])])

Chi(A) ==
  Tuple([i \in 1..StateBytes |->
    LET x == ((i - 1) \div 8) % 5
        y == (i - 1) \div 40
        j == (i - 1) % 8
    IN Xor(A[i], And(255 - A[Idx((x + 1) % 5, y, j)], A[Idx((x + 2) % 5, y, j)]))])

Iota(A, rc) == Tuple([i \in 1..StateBytes |-> IF i <= 8 THEN Xor(A[i], rc[i]) ELSE A[i]])

Round(A, rc) == Iota(Chi(RhoPi(Theta(A))), rc)

\* Rounds r .. NumRounds of the permutation of a state of StateBytes bytes.
RECURSIVE Rounds(_, _)
Rounds(A, r) ==
  IF r > NumRounds \/ Len(A) # StateBytes THEN A
  ELSE Rounds(Round(A, RoundConstants[r]), r + 1)

KeccakF(A) == Rounds(A, 1)

\* The padding of Keccak before standardisation: 0x01 ... 0x80, no SHA-3
\* domain separation bits.
PadKeccak(M) ==
  LET q == Rate - (Len(M) % Rate)
  IN IF q = 1 THEN M \o <<129>>
     ELSE M \o <<1>> \o [i \in 1..(q - 2) |-> 0] \o <<128>>

\* SHA-3 domain separation bits 01 and pad10*1: 0x06 ... 0x80, or 0x86 when
\* a single byte completes the block.
Pad(M) ==
  LET q == Rate - (Len(M) % Rate)
  IN IF q = 1 THEN M \o <<134>>
     ELSE M \o <<6>> \o [i \in 1..(q - 2) |-> 0] \o <<128>>

\* Absorb the padded message P from block k (0-based) on.
RECURSIVE Absorb(_, _, _)
Absorb(S, P, k) ==
  IF Rate * k >= Len(P) THEN S
  ELSE Absorb(KeccakF(Tuple([i \in 1..StateBytes |->
                IF i <= Rate THEN Xor(S[i], P[Rate * k + i]) ELSE S[i]])), P, k + 1)

\* The 32 digest bytes of the message bytes M.
Sha3_256(M) == SubSeq(Absorb([i \in 1..StateBytes |-> 0], Pad(M), 0), 1, DigestBytes)

\* Hexadecimal with the digits A..F in upper case.
RECURSIVE HexUpper(_)
HexUpper(bytes) ==
  IF bytes = <<>> THEN <<>>
  ELSE LET d(n) == IF n < 10 THEN 48 + n ELSE 55 + n
       IN <<d(Head(bytes) \div 16), d(Head(bytes) % 16)>> \o HexUpper(Tail(bytes))

RECURSIVE Hex(_)
Hex(bytes) ==
  IF bytes = <<>> THEN <<>>
  ELSE <<HexDigits[(Head(bytes) \div 16) + 1], HexDigits[(Head(bytes) % 16) + 1]>> \o Hex(Tail(bytes))


\* hashlib.sha3_256(data): a hash object that has absorbed data.
sha3_256(data) == [name |-> "sha3_256", data |-> data]

\* h.hexdigest(): the digest of the absorbed data in lowercase hexadecimal.
hexdigest(h) == Hex(Sha3_256(h.data))

(***************************************************************************)
(* input() and print().                                                    *)
(***************************************************************************)
\* A name that is not bound yet.
Unbound == <<-1>>

\* Position of the first "\n" of b, 0 if there is none.
FirstNL(b) ==
  LET nl == {i \in 1..Len(b) : b[i] = NL}
  IN IF nl = {} THEN 0 ELSE CHOOSE i \in nl : \A k \in nl : i <= k

\* The next line of text, its terminator included; <<>> at end of file.
ReadLine(text) == IF FirstNL(text) = 0 THEN text ELSE SubSeq(text, 1, FirstNL(text))

\* How many bytes of standard input the reads of sys.stdin.readline() can
\* have delivered when the line is complete: through the first "\n" at
\* least, everything when there is no "\n" (the reads go on to end of file).
ReadSizes(bytes) == IF FirstNL(bytes) = 0 THEN {Len(bytes)} ELSE FirstNL(bytes)..Len(bytes)

\* sys.stdin.readline() when standard input or standard output is not a
\* terminal: the buffered bytes are decoded and the line is the decoded
\* text through its first "\n".  A sequence cut by the end of the buffer is
\* held back; it is an error only when the reads reach end of file, which
\* they do when the text has no "\n".
readline(bytes, errors, buffered) ==
  LET chunk == SubSeq(bytes, 1, buffered)
      ready == IF FirstNL(chunk) = 0 THEN chunk
               ELSE SubSeq(chunk, 1, buffered - PendingTail(chunk))
      d == Decode(ready, errors)
  IN [raised |-> d.raised, text |-> ReadLine(d.text)]

\* fgets(buf, size, stdin): at most size - 1 bytes, ending with the first "\n".
fgets(bytes, size) ==
  LET end == IF FirstNL(bytes) = 0 THEN Len(bytes) ELSE FirstNL(bytes)
  IN SubSeq(bytes, 1, IF end < size - 1 THEN end ELSE size - 1)

\* The C string in a buffer: the bytes before the first NUL.
CString(buf) ==
  LET nul == {i \in 1..Len(buf) : buf[i] = 0}
  IN IF nul = {} THEN buf ELSE SubSeq(buf, 1, (CHOOSE i \in nul : \A k \in nul : i <= k) - 1)

\* PyOS_StdioReadline, the reader of input() on a terminal: fgets() into a
\* growing buffer until the C string ends with "\n" or the file ends.  p is
\* the string so far, rest what standard input still holds.  When the
\* string is still empty after an fgets() (the chunk began with a NUL) the
\* loop test reads the byte in front of the buffer: oob tells whether that
\* byte compares equal to "\n".
RECURSIVE PyOS_StdioReadline(_, _, _)
PyOS_StdioReadline(p, rest, oob) ==
  LET incr == IF Len(p) > 0 THEN Len(p) + 2 ELSE 100
      chunk == fgets(rest, incr)
      q == p \o CString(chunk)
  IN IF chunk = <<>> THEN p
     ELSE IF (IF q = <<>> THEN oob ELSE q[Len(q)] = NL) THEN q
     ELSE PyOS_StdioReadline(q, SubSeq(rest, Len(chunk) + 1, Len(rest)), oob)

\* builtin_input_impl, the C function behind input().  With standard input
\* and output on a terminal the line of PyOS_StdioReadline loses its last
\* byte (the terminator, if the line has one), then a "\r" that ends it, and
\* is decoded; otherwise the line of sys.stdin.readline() loses its "\n" if
\* it ends with one.  An empty line (nothing left to read) is EOFError.
builtin_input_impl(bytes, tty, errors, buffered, oob) ==
  IF tty
    THEN LET s == PyOS_StdioReadline(<<>>, bytes, oob)
             len == IF Len(s) > 1 /\ s[Len(s) - 1] = CR THEN Len(s) - 2 ELSE Len(s) - 1
             d == Decode(SubSeq(s, 1, len), errors)
         IN IF s = <<>> THEN [raised |-> "EOFError", value |-> Unbound]
            ELSE IF d.raised # "" THEN [raised |-> d.raised, value |-> Unbound]
            ELSE [raised |-> "", value |-> d.text]
    ELSE LET r == readline(bytes, errors, buffered)
             line == r.text
         IN IF r.raised # "" THEN [raised |-> r.raised, value |-> Unbound]
            ELSE IF line = <<>> THEN [raised |-> "EOFError", value |-> Unbound]
            ELSE [raised |-> "",
                  value |-> IF line[Len(line)] = NL THEN SubSeq(line, 1, Len(line) - 1)
                            ELSE line]

\* input() that returns "" at end of file, as sys.stdin.readline() does.
input_eof_as_empty(bytes, tty, errors, buffered, oob) ==
  LET r == builtin_input_impl(bytes, tty, errors, buffered, oob)
  IN IF r.raised = "EOFError" THEN [raised |-> "", value |-> <<>>] ELSE r

\* input() that refuses an empty name.
input_rejects_empty(bytes, tty, errors, buffered, oob) ==
  LET r == builtin_input_impl(bytes, tty, errors, buffered, oob)
  IN IF r.raised = "" /\ r.value = <<>> THEN [raised |-> "ValueError", value |-> Unbound]
     ELSE r

\* input(prompt): the name read from standard input, or the exception raised.
input(bytes, tty, errors, buffered, oob) ==
  builtin_input_impl(bytes, tty, errors, buffered, oob)

\* print(a, b): the arguments separated by a space and ended by "\n".
print(a, b) == a \o <<SP>> \o b \o <<NL>>

(***************************************************************************)
(* The environment of a run.                                               *)
(***************************************************************************)
\* The bytes of standard input enumerated exhaustively: "a", "\n", and
\* 0xFF, which no UTF-8 sequence contains.
Alphabet == {97, NL, 255}

\* "abc\n", "abc" (end of file without a line terminator), " a \n",
\* U+00E9 U+20AC U+1F600 "\n" (2-, 3- and 4-byte UTF-8), 136 "a" and "\n"
\* (a name of exactly one rate block), "a\r\n", U+00E9 without a line
\* terminator, U+20AC cut after two bytes and "\n", the surrogate U+D800 as
\* three bytes and "\n", "a" NUL "b\ncd\n", NUL "\nab\n", and "a\n" followed
\* by the first two bytes of U+D800.
Samples ==
  { <<97, 98, 99, NL>>, <<97, 98, 99>>, <<SP, 97, SP, NL>>,
    <<195, 169, 226, 130, 172, 240, 159, 152, 128, NL>>,
    [i \in 1..(Rate + 1) |-> IF i <= Rate THEN 97 ELSE NL],
    <<97, CR, NL>>, <<195, 169>>, <<226, 130, NL>>, <<237, 160, 128, NL>>,
    <<97, 0, 98, NL, 99, 100, NL>>, <<0, NL, 97, 98, NL>>, <<97, NL, 237, 160>> }

StdinContents == (UNION {[1..n -> Alphabet] : n \in 0..MaxLen}) \cup Samples

\* Standard-input contents of the runs of SpecRuns.
RerunStdin == { <<>>, <<97, NL>>, <<97, 98, 99, NL>>, <<97, 98, 99>>, <<255, NL>> }

\* What os.system("clear") returns: -1 when no child process could be
\* created, else the wait status of the shell: 256 times its exit code
\* (127 when there is no clear command), or the number of the signal that
\* killed it, plus 128 when it dumped core.
WaitStatuses ==
  {-1} \cup {256 * e : e \in 0..255} \cup (1..64) \cup {128 + sig : sig \in 1..64}

\* What os.system("clear") can do: the status it returns, and whether the
\* screen was cleared (a clear command that exits 0 leaves the screen as it
\* is when standard output is not a terminal; no command has run when the
\* status is -1).
ClearOutcomes ==
  {o \in [status : WaitStatuses, screen : {"cleared", "unchanged"}] :
     o.status = -1 => o.screen = "unchanged"}

\* What a run that has not started has left behind.
NoRun == [nama |-> Unbound, printed |-> <<>>, screen |-> "untouched", exitCode |-> -1]

(***************************************************************************)
(* The program.                                                            *)
(***************************************************************************)
VARIABLES
  pc,            \* the statement to execute next, "done" or "failed"
  stdin,         \* the bytes of standard input, end of file after them
  tty,           \* whether standard input and standard output are terminals
  errors,        \* the error handler of sys.stdin
  stdout,        \* texts written to sys.stdout
  stderr,        \* texts written to stderr (a traceback is recorded in exc)
  terminal,      \* what os.system("clear") did to the screen
  nama,          \* line 5
  encoded,       \* line 7
  nama_encoded,  \* line 8
  exc,           \* the uncaught exception, "" if none
  exitCode,      \* exit code of the process, -1 while it runs
  steps,         \* source lines executed so far
  prev           \* what the previous run of the program left behind

\* The lines print() wrote to sys.stdout, without their terminators (the
\* prompt of input() ends in no terminator and is not among them).
PrintedLines ==
  LET EndsLine(t) == t # <<>> /\ t[Len(t)] = NL
      w == SelectSeq(stdout, EndsLine)
  IN [i \in 1..Len(w) |-> SubSeq(w[i], 1, Len(w[i]) - 1)]

vars ==
  <<pc, stdin, tty, errors, stdout, stderr, terminal, nama, encoded, nama_encoded,
    exc, exitCode, steps, prev>>

Start(contents) ==
  /\ pc = "input"
  /\ stdin \in contents
  /\ tty \in BOOLEAN
  /\ errors \in ErrorHandlers
  /\ stdout = <<>>
  /\ stderr = <<>>
  /\ terminal = "untouched"
  /\ nama = Unbound
  /\ encoded = Unbound
  /\ nama_encoded = sha3_256(Unbound)
  /\ exc = ""
  /\ exitCode = -1
  /\ steps = <<>>

Init == Start(StdinContents) /\ prev = NoRun

\* An uncaught exception: traceback, exit code 1.
Raise(e) ==
  /\ exc' = e
  /\ exitCode' = 1
  /\ pc' = "failed"

\* Line 5: nama = input("Masukkan nama anda: ").  On a terminal the prompt
\* goes to stderr, otherwise to sys.stdout.
Input ==
  /\ pc = "input"
  /\ steps' = Append(steps, 5)
  /\ IF tty
       THEN stderr' = Append(stderr, Prompt) /\ stdout' = stdout
       ELSE stdout' = Append(stdout, Prompt) /\ stderr' = stderr
  /\ \E buffered \in ReadSizes(stdin), oob \in BOOLEAN :
       LET r == input(stdin, tty, errors, buffered, oob)
       IN IF r.raised # ""
            THEN Raise(r.raised) /\ UNCHANGED nama
            ELSE /\ nama' = r.value
                 /\ pc' = "clear"
                 /\ UNCHANGED <<exc, exitCode>>
  /\ UNCHANGED <<stdin, tty, errors, terminal, encoded, nama_encoded, prev>>

\* A clear whose non-zero status raises, as subprocess.run(check=True) would.
ClearChecked ==
  /\ pc = "clear"
  /\ steps' = Append(steps, 6)
  /\ \E o \in ClearOutcomes :
       /\ terminal' = o.screen
       /\ IF o.status = 0
            THEN pc' = "encode" /\ UNCHANGED <<exc, exitCode>>
            ELSE Raise("CalledProcessError")
  /\ UNCHANGED <<stdin, tty, errors, stdout, stderr, nama, encoded, nama_encoded, prev>>

\* Line 6: os.system("clear"); the returned status is discarded.
Clear ==
  /\ pc = "clear"
  /\ steps' = Append(steps, 6)
  /\ \E o \in ClearOutcomes : terminal' = o.screen
  /\ pc' = "encode"
  /\ UNCHANGED <<stdin, tty, errors, stdout, stderr, nama, encoded, nama_encoded,
                 exc, exitCode, prev>>

\* The name without its spaces.
EncodeInputStripped == SelectSeq(nama, LAMBDA c : c # SP)

\* The text line 7 encodes.
EncodeInput == nama

\* Line 7: encoded = nama.encode()
Encode ==
  /\ pc = "encode"
  /\ steps' = Append(steps, 7)
  /\ IF CanEncode(EncodeInput)
       THEN /\ encoded' = Utf8(EncodeInput)
            /\ pc' = "hash"
            /\ UNCHANGED <<exc, exitCode>>
       ELSE Raise("UnicodeEncodeError") /\ UNCHANGED encoded
  /\ UNCHANGED <<stdin, tty, errors, stdout, stderr, terminal, nama, nama_encoded, prev>>

\* Line 8: nama_encoded = hashlib.sha3_256(encoded)
Hash ==
  /\ pc = "hash"
  /\ steps' = Append(steps, 8)
  /\ nama_encoded' = sha3_256(encoded)
  /\ pc' = "print_name"
  /\ UNCHANGED <<stdin, tty, errors, stdout, stderr, terminal, nama, encoded,
                 exc, exitCode, prev>>

\* Line 9: print("Nama sebelum di hash: ", nama)
PrintName ==
  /\ pc = "print_name"
  /\ steps' = Append(steps, 9)
  /\ stdout' = Append(stdout, print(LabelSebelum, nama))
  /\ pc' = "print_digest"
  /\ UNCHANGED <<stdin, tty, errors, stderr, terminal, nama, encoded, nama_encoded,
                 exc, exitCode, prev>>

\* Line 10: print ("Nama setelah di hash: ", nama_encoded.hexdigest())
PrintDigest ==
  /\ pc = "print_digest"
  /\ steps' = Append(steps, 10)
  /\ stdout' = Append(stdout, print(LabelSetelah, hexdigest(nama_encoded)))
  /\ pc' = "exit"
  /\ UNCHANGED <<stdin, tty, errors, stderr, terminal, nama, encoded, nama_encoded,
                 exc, exitCode, prev>>

\* End of the module: the interpreter exits with code 0.
Exit ==
  /\ pc = "exit"
  /\ exitCode' = 0
  /\ pc' = "done"
  /\ UNCHANGED <<stdin, tty, errors, stdout, stderr, terminal, nama, encoded,
                 nama_encoded, exc, steps, prev>>

Next == Input \/ Clear \/ Encode \/ Hash \/ PrintName \/ PrintDigest \/ Exit

Spec == Init /\ [][Next]_vars

(***************************************************************************)
(* Several runs of the program, one after the other: no state persists     *)
(* between runs, prev only records what the run before left behind.        *)
(***************************************************************************)
InitRuns == Start(RerunStdin) /\ prev = NoRun

\* The process ends and the program is started again.
Restart ==
  /\ pc \in {"done", "failed"}
  /\ prev' = [nama |-> nama, printed |-> PrintedLines, screen |-> terminal,
               exitCode |-> exitCode]
  /\ pc' = "input"
  /\ stdin' \in RerunStdin
  /\ tty' \in BOOLEAN
  /\ errors' \in ErrorHandlers
  /\ stdout' = <<>>
  /\ stderr' = <<>>
  /\ terminal' = "untouched"
  /\ nama' = Unbound
  /\ encoded' = Unbound
  /\ nama_encoded' = sha3_256(Unbound)
  /\ exc' = ""
  /\ exitCode' = -1
  /\ steps' = <<>>

NextRuns == Next \/ Restart

SpecRuns == InitRuns /\ [][NextRuns]_vars


(***************************************************************************)
(* Reference digests: hexdigest() of hashlib.sha3_256 for four names.       *)
(***************************************************************************)
\* "": a7ffc6f8bf1ed76651c14756a061d662f580ff4de43b49fa82d80a4b80f8434a
DigestEmpty ==
  <<97, 55, 102, 102, 99, 54, 102, 56, 98, 102, 49, 101, 100, 55, 54, 54,
    53, 49, 99, 49, 52, 55, 53, 54, 97, 48, 54, 49, 100, 54, 54, 50,
    102, 53, 56, 48, 102, 102, 52, 100, 101, 52, 51, 98, 52, 57, 102, 97,
    56, 50, 100, 56, 48, 97, 52, 98, 56, 48, 102, 56, 52, 51, 52, 97>>

\* "abc": 3a985da74fe225b2045c172d6bd390bd855f086e3e9d525b46bfe24511431532
DigestAbc ==
  <<51, 97, 57, 56, 53, 100, 97, 55, 52, 102, 101, 50, 50, 53, 98, 50,
    48, 52, 53, 99, 49, 55, 50, 100, 54, 98, 100, 51, 57, 48, 98, 100,
    56, 53, 53, 102, 48, 56, 54, 101, 51, 101, 57, 100, 53, 50, 53, 98,
    52, 54, 98, 102, 101, 50, 52, 53, 49, 49, 52, 51, 49, 53, 51, 50>>

\* U+00E9 U+20AC U+1F600: e7b1fb7e2aafc5df996018db71489da1db6ba27c33eab5f5ca7aba96f97bf51b
DigestMultibyte ==
  <<101, 55, 98, 49, 102, 98, 55, 101, 50, 97, 97, 102, 99, 53, 100, 102,
    57, 57, 54, 48, 49, 56, 100, 98, 55, 49, 52, 56, 57, 100, 97, 49,
    100, 98, 54, 98, 97, 50, 55, 99, 51, 51, 101, 97, 98, 53, 102, 53,
    99, 97, 55, 97, 98, 97, 57, 54, 102, 57, 55, 98, 102, 53, 49, 98>>

\* 136 times "a": 3fc5559f14db8e453a0a3091edbd2bc25e11528d81c66fa570a4efdcc2695ee1
DigestBlock ==
  <<51, 102, 99, 53, 53, 53, 57, 102, 49, 52, 100, 98, 56, 101, 52, 53,
    51, 97, 48, 97, 51, 48, 57, 49, 101, 100, 98, 100, 50, 98, 99, 50,
    53, 101, 49, 49, 53, 50, 56, 100, 56, 49, 99, 54, 54, 102, 97, 53,
    55, 48, 97, 52, 101, 102, 100, 99, 99, 50, 54, 57, 53, 101, 101, 49>>

ReferenceDigests ==
  { [name |-> <<>>, hex |-> DigestEmpty],
    [name |-> <<97, 98, 99>>, hex |-> DigestAbc],
    [name |-> <<233, 8364, 128512>>, hex |-> DigestMultibyte],
    [name |-> [i \in 1..Rate |-> 97], hex |-> DigestBlock] }

(***************************************************************************)
(* Vocabulary of the claims.                                               *)
(***************************************************************************)
\* The exact input string: the text of standard input up to its first line
\* terminator (up to end of file if it has none).
InputLine ==
  LET nl == {i \in 1..Len(stdin) : stdin[i] = NL}
      n == IF nl = {} THEN Len(stdin) ELSE (CHOOSE i \in nl : \A k \in nl : i <= k) - 1
  IN DecodeRange(stdin, 1, n)

\* Standard input is text: every byte of it belongs to a UTF-8 sequence.
StdinIsText == \A i \in 1..Len(stdin) : SeqLen(stdin, i) > 0 \/ Covered(stdin, i)

Terminated == pc \in {"done", "failed"}

LineWasRead == nama # Unbound

IsLowerHex64(t) ==
  /\ Len(t) = 2 * DigestBytes
  /\ \A i \in 1..Len(t) : t[i] \in (48..57) \cup (97..102)

\* The text after the label and the separator of a printed line.
AfterLabel(line, label) == SubSeq(line, Len(label) + 2, Len(line))

HasLabel(line, label) ==
  /\ Len(line) >= Len(label) + 1
  /\ SubSeq(line, 1, Len(label) + 1) = label \o <<SP>>

(***************************************************************************)
(* C1.  In every run in which a line is read, each of the four steps       *)
(* (read, clear, hash, print) executes exactly once and in that order:     *)
(* when the run has ended, the lines executed are 5, 6, 7, 8, 9, 10.       *)
(***************************************************************************)
C1_EveryStepOnceInOrder ==
  (LineWasRead /\ Terminated) => steps = <<5, 6, 7, 8, 9, 10>>

(***************************************************************************)
(* C2.  The printed digest is the SHA3-256 digest of the UTF-8 encoding of *)
(* the name: the hashed bytes are the UTF-8 encoding of the name, and for  *)
(* the names with a reference digest ("" and "abc" among them) the digest  *)
(* line shows exactly that digest.                                         *)
(***************************************************************************)
C2_DigestOfUtf8Name ==
  Len(PrintedLines) >= 2 =>
    /\ nama_encoded.data = Utf8(nama)
    /\ \A v \in ReferenceDigests :
         nama = v.name => AfterLabel(PrintedLines[2], LabelSetelah) = v.hex

C2_Witness == pc = "done" /\ nama = <<97, 98, 99>>

(***************************************************************************)
(* C4.  The first line printed shows the exact input string: the line read *)
(* from standard input with nothing removed beyond the line terminator     *)
(* ("\n", or "\r\n") and nothing added.  (The line starts with the label   *)
(* of line 9 and print's separator, which the claim does not mention; the  *)
(* formula compares what follows them.)                                    *)
(***************************************************************************)
C4_FirstLineIsInput ==
  Len(PrintedLines) >= 1 =>
    LET shown == AfterLabel(PrintedLines[1], LabelSebelum)
    IN \/ shown = InputLine
       \/ FirstNL(stdin) # 0 /\ shown \o <<CR>> = InputLine

(***************************************************************************)
(* C5.  As claimed: the second line printed is exactly 64 lowercase        *)
(* hexadecimal characters.                                                 *)
(***************************************************************************)
C5_SecondLineIs64Hex ==
  Len(PrintedLines) >= 2 => IsLowerHex64(PrintedLines[2])

(***************************************************************************)
(* C5, amended.  The second line print() writes is the label "Nama setelah *)
(* di hash: ", one space, and exactly 64 lowercase hexadecimal characters. *)
(***************************************************************************)
C5_SecondLineIsLabelled64Hex ==
  Len(PrintedLines) >= 2 =>
    /\ HasLabel(PrintedLines[2], LabelSetelah)
    /\ IsLowerHex64(AfterLabel(PrintedLines[2], LabelSetelah))

C5_Witness == pc = "done" /\ Len(PrintedLines) = 2 /\ nama = <<233, 8364, 128512>>

(***************************************************************************)
(* C6.  Once the reader has returned a name no failure is possible: the    *)
(* run ends with both lines printed, no exception and exit code 0.         *)
(***************************************************************************)
C6_NoFailureAfterRead ==
  (LineWasRead /\ Terminated) =>
    (pc = "done" /\ exc = "" /\ exitCode = 0 /\ Len(PrintedLines) = 2)

(***************************************************************************)
(* C7.  When standard input is at end of file before a line is read, the   *)
(* run ends at the read: line 5 is executed once and raises EOFError, the  *)
(* terminal clear is not run, nothing is encoded or hashed, no line is     *)
(* printed.                                                                *)
(***************************************************************************)
C7_EofStopsAtRead ==
  stdin = <<>> =>
    /\ pc \in {"input", "failed"}
    /\ steps \in {<<>>, <<5>>}
    /\ terminal = "untouched"
    /\ nama = Unbound
    /\ encoded = Unbound
    /\ nama_encoded = sha3_256(Unbound)
    /\ PrintedLines = <<>>
    /\ pc = "failed" => (steps = <<5>> /\ exc = "EOFError" /\ exitCode = 1)

C7_Witness == stdin = <<>> /\ pc = "failed" /\ exc = "EOFError"

(***************************************************************************)
(* C8.  An empty line is accepted like any other input: when standard      *)
(* input is text whose first line is empty, the read does not fail, the    *)
(* name is the empty string, the empty byte sequence is hashed and the run *)
(* ends with both lines printed, the second showing the digest of the      *)
(* empty input.                                                            *)
(***************************************************************************)
C8_EmptyLineAccepted ==
  (stdin # <<>> /\ stdin[1] = NL /\ StdinIsText) =>
    /\ exc = ""
    /\ pc # "failed"
    /\ pc \notin {"input"} => nama = <<>>
    /\ pc = "done" =>
         /\ nama_encoded.data = <<>>
         /\ Len(PrintedLines) = 2
         /\ PrintedLines[2] = LabelSetelah \o <<SP>> \o DigestEmpty

C8_Witness ==
  /\ stdin # <<>> /\ stdin[1] = NL /\ StdinIsText
  /\ pc = "done" /\ exitCode = 0 /\ Len(PrintedLines) = 2

(***************************************************************************)
(* C9.  The terminal clear has no effect on the result.  Whatever status   *)
(* the clear returns, the clear step changes neither the name, its         *)
(* encoding, the hash object, what was written, nor the exit status, and   *)
(* the run goes on to line 7; and a run prints the same two lines and ends *)
(* with the same exit code as the run before it that read the same name,   *)
(* whatever the clear did to the screen in either.                         *)
(***************************************************************************)
C9_ClearIsCosmetic ==
  /\ [][pc = "clear" =>
          /\ pc' = "encode"
          /\ UNCHANGED <<stdin, stdout, stderr, nama, encoded, nama_encoded,
                         exc, exitCode>>]_vars
  /\ []((Terminated /\ LineWasRead /\ prev.nama = nama) =>
          (PrintedLines = prev.printed /\ exitCode = prev.exitCode))

C9_Witness ==
  /\ pc = "done"
  /\ Len(PrintedLines) = 2
  /\ prev.nama = nama
  /\ prev.screen = "unchanged"
  /\ terminal = "cleared"

(***************************************************************************)
(* C10.  The name is never modified after it is read, and the value        *)
(* printed on the name line is the value that was encoded and hashed.      *)
(***************************************************************************)
C10_NameUnmodified ==
  /\ [][LineWasRead => nama' = nama]_vars
  /\ [](Len(PrintedLines) = 2 =>
          /\ AfterLabel(PrintedLines[1], LabelSebelum) = nama
          /\ encoded = Utf8(AfterLabel(PrintedLines[1], LabelSebelum))
          /\ nama_encoded.data = encoded)

C10_Witness == pc = "done" /\ Len(PrintedLines) = 2 /\ nama = <<SP, 97, SP>>

=============================================================================
